---- MODULE Spec2Model ----
(***************************************************************************)
(* Model of the metrics computation pipeline of notebook-to-dashboard      *)
(* (src/business_metrics.py).  A RecordSet is a pandas DataFrame: a set of *)
(* column names and a sequence of rows.  Every calculator is an operator   *)
(* that maps its arguments to an outcome (a returned value or a raised     *)
(* exception) together with the RecordSet as the call leaves it.           *)
(*                                                                         *)
(* Numbers.  Money is kept in integer cents, so every float the code       *)
(* computes is an exact rational here; IEEE-754 rounding is not modelled.  *)
(* The three special float values the code can produce (nan, +inf, -inf)   *)
(* are modelled, and so is the difference between numpy float division     *)
(* (x / 0.0 is inf or nan) and Python int division (ZeroDivisionError).    *)
(***************************************************************************)
EXTENDS Integers, Sequences, FiniteSets, TLC

VARIABLES df, comp, df0, op, result

vars == <<df, comp, df0, op, result>>

(***************************************************************************)
(* Bounds of the model.                                                    *)
(***************************************************************************)
MaxRows == 2

MaxCompRows == 1

MaxCohortRows == 3

MaxExperienceRows == 3

MaxTrendRows == 3

MaxRankingRows == 3

MaxItemRows == 2

(***************************************************************************)
(* Float values: a rational n/d in lowest terms (d > 0), or nan, +inf,     *)
(* -inf.                                                                   *)
(***************************************************************************)
Abs(x) == IF x < 0 THEN -x ELSE x

RECURSIVE GCD(_, _)
GCD(a, b) == IF b = 0 THEN a ELSE GCD(b, a % b)

Num(n, d) ==
    LET s == IF d < 0 THEN -1 ELSE 1
        g == GCD(Abs(n), Abs(d))
    IN  [k |-> "num", n |-> (s * n) \div g, d |-> (s * d) \div g]

Whole(n) == [k |-> "num", n |-> n, d |-> 1]

NaN == [k |-> "nan", n |-> 0, d |-> 1]

PosInf == [k |-> "inf", n |-> 1, d |-> 1]

NegInf == [k |-> "inf", n |-> -1, d |-> 1]

IsNaN(a) == a.k = "nan"

IsNum(a) == a.k = "num"

IsInf(a) == a.k = "inf"

Sign(a) == IF a.n > 0 THEN 1 ELSE IF a.n < 0 THEN -1 ELSE 0

FNeg(a) == IF IsNaN(a) THEN NaN ELSE [a EXCEPT !.n = -a.n]

FAdd(a, b) ==
    IF IsNaN(a) \/ IsNaN(b) THEN NaN
    ELSE IF IsInf(a) /\ IsInf(b) THEN (IF a.n = b.n THEN a ELSE NaN)
    ELSE IF IsInf(a) THEN a
    ELSE IF IsInf(b) THEN b
    ELSE Num(a.n * b.d + b.n * a.d, a.d * b.d)

FSub(a, b) == FAdd(a, FNeg(b))

FMul(a, b) ==
    IF IsNaN(a) \/ IsNaN(b) THEN NaN
    ELSE IF IsInf(a) \/ IsInf(b)
         THEN (IF Sign(a) * Sign(b) = 0 THEN NaN
               ELSE IF Sign(a) * Sign(b) > 0 THEN PosInf ELSE NegInf)
    ELSE Num(a.n * b.n, a.d * b.d)

\* numpy float64 true division: a zero divisor gives inf or nan (with a
\* RuntimeWarning), never an exception.  The zero divisors of the code are
\* sums and means of non-negative amounts, hence +0.0.
FDiv(a, b) ==
    IF IsNaN(a) \/ IsNaN(b) THEN NaN
    ELSE IF IsInf(a) /\ IsInf(b) THEN NaN
    ELSE IF IsInf(a) THEN (IF Sign(a) * Sign(b) >= 0 THEN
                              (IF a.n > 0 THEN PosInf ELSE NegInf)
                           ELSE (IF a.n > 0 THEN NegInf ELSE PosInf))
    ELSE IF IsInf(b) THEN Whole(0)
    ELSE IF b.n = 0 THEN (IF a.n = 0 THEN NaN
                          ELSE IF a.n > 0 THEN PosInf ELSE NegInf)
    ELSE Num(a.n * b.d, a.d * b.n)

\* Comparisons of floats: every comparison with nan is False.
FLt(a, b) ==
    IF IsNaN(a) \/ IsNaN(b) THEN FALSE
    ELSE IF IsInf(a) /\ IsInf(b) THEN a.n < b.n
    ELSE IF IsInf(a) THEN a.n < 0
    ELSE IF IsInf(b) THEN b.n > 0
    ELSE a.n * b.d < b.n * a.d

FGt(a, b) == FLt(b, a)

FLe(a, b) == IF IsNaN(a) \/ IsNaN(b) THEN FALSE ELSE ~FLt(b, a)

\* Python's built-in min and max of two arguments: the first argument is
\* kept unless the second compares strictly smaller (larger).
PyMin(a, b) == IF FLt(b, a) THEN b ELSE a

PyMax(a, b) == IF FGt(b, a) THEN b ELSE a

(***************************************************************************)
(* Outcomes of a call: a returned value, or a raised exception.            *)
(***************************************************************************)
Ok(v) == [exc |-> "none", val |-> v]

Raise(e) == [exc |-> e, val |-> <<>>]

Returned(o) == o.exc = "none"

\* Python's dict: key membership and update.
Has(m, key) == key \in DOMAIN m

(***************************************************************************)
(* The RecordSet.  A row holds one order item; `cols` names the columns    *)
(* the DataFrame has.  The fields of a row under an absent column are      *)
(* never read.  Missing numbers (NaN cells) are NullNum, missing strings   *)
(* NullStr.  A timestamp is a calendar date [y, m, d].                     *)
(***************************************************************************)
NullNum == -1

NullStr == "NaN"

NoPeriod == <<"none", 0>>

RequiredCols ==
    {"order_id", "order_item_id", "customer_id", "price", "freight_value",
     "total_revenue", "order_purchase_timestamp", "year", "month"}

OptionalCols ==
    {"order_status", "product_category_name", "customer_state",
     "review_score", "delivery_days", "delivery_category"}

AllCols == RequiredCols \cup OptionalCols

\* comparison_df = None
NoDf == [cols |-> {}, rows |-> <<>>]

\* data_loader.categorize_delivery_speed
categorize_delivery_speed(days) ==
    IF days = NullNum THEN "Unknown"
    ELSE IF days <= 3 THEN "1-3 days"
    ELSE IF days <= 7 THEN "4-7 days"
    ELSE "8+ days"

\* One line item as data_loader builds it: year and month are taken from
\* the purchase timestamp, total_revenue is price + freight_value, and the
\* delivery category is bucketed from delivery_days.
MkRow(o, c, p, f, st, ts, cat, state, rs, dd) ==
    [order_id |-> o, order_item_id |-> 1, customer_id |-> c,
     price |-> p, freight_value |-> f, total_revenue |-> p + f,
     order_status |-> st, order_purchase_timestamp |-> ts,
     year |-> ts.y, month |-> ts.m,
     product_category_name |-> cat, customer_state |-> state,
     review_score |-> rs, delivery_days |-> dd,
     delivery_category |-> categorize_delivery_speed(dd),
     period |-> NoPeriod]

Date(y, m, d) == [y |-> y, m |-> m, d |-> d]

\* All sequences over S of length at most n.
SeqsUpTo(S, n) == UNION {[1..k -> S] : k \in 0..n}

(***************************************************************************)
(* pandas helpers.                                                         *)
(***************************************************************************)
RECURSIVE Sum(_)
Sum(s) == IF s = <<>> THEN 0 ELSE Head(s) + Sum(Tail(s))

RECURSIVE SetSum(_, _)
SetSum(f, S) ==
    IF S = {} THEN 0
    ELSE LET x == CHOOSE y \in S : TRUE IN f[x] + SetSum(f, S \ {x})

\* df[name]: the column as a sequence.
Col(d, name) == [i \in 1..Len(d.rows) |-> d.rows[i][name]]

\* df[name].nunique()
NUnique(d, name) == Cardinality({d.rows[i][name] : i \in 1..Len(d.rows)})

\* df[df[name] == key]: the rows with that value, in order.
Group(d, name, key) ==
    [d EXCEPT !.rows = SelectSeq(d.rows, LAMBDA r : r[name] = key)]

\* Series.mean() of a sequence of integers: nan when empty.
Mean(s) == IF Len(s) = 0 THEN NaN ELSE Num(Sum(s), Len(s))

\* Mutant of OrderValues: the revenue of every row, not grouped by order.
OrderValuesPerRow(d) == Col(d, "total_revenue")

\* df.groupby('order_id')['total_revenue'].sum(): one entry per order.
OrderValues(d) ==
    [o \in {d.rows[i].order_id : i \in 1..Len(d.rows)} |->
        Sum(Col(Group(d, "order_id", o), "total_revenue"))]

\* Series.mean() over a groupby result.
SeriesMean(f) ==
    IF DOMAIN f = {} THEN NaN
    ELSE Num(SetSum(f, DOMAIN f), Cardinality(DOMAIN f))

\* The values of a groupby result in ascending order.
SortedValues(f) ==
    LET keys == DOMAIN f
        ks == CHOOSE q \in [1..Cardinality(keys) -> keys] :
                  /\ \A i, j \in DOMAIN q : i # j => q[i] # q[j]
                  /\ \A i, j \in DOMAIN q : i < j => f[q[i]] <= f[q[j]]
    IN  [i \in DOMAIN ks |-> f[ks[i]]]

\* Series.median(): nan when empty, the mean of the two middle values when
\* the count is even.
SeriesMedian(f) ==
    LET v == SortedValues(f)
        n == Len(v)
    IN  IF n = 0 THEN NaN
        ELSE IF n % 2 = 1 THEN Whole(v[(n + 1) \div 2])
        ELSE Num(v[n \div 2] + v[n \div 2 + 1], 2)

\* Series.std() squared (sample variance, ddof = 1): nan with fewer than two
\* values.  The code returns its square root.
SeriesVar(f) ==
    LET n == Cardinality(DOMAIN f)
        s == SetSum(f, DOMAIN f)
        sq == [o \in DOMAIN f |-> (n * f[o] - s) * (n * f[o] - s)]
    IN  IF n < 2 THEN NaN ELSE Num(SetSum(sq, DOMAIN f), n * n * (n - 1))

(***************************************************************************)
(* calculate_revenue_metrics (business_metrics.py 18-61).                  *)
(* total_revenue, average_order_value, average_item_price and              *)
(* median_order_value are numpy floats; total_orders and total_items_sold  *)
(* are Python ints (Series.nunique() and len()).                           *)
(***************************************************************************)
BasicRevenueMetrics(d) ==
    LET order_values == OrderValues(d)
    IN  [total_revenue |-> Whole(Sum(Col(d, "total_revenue"))),
         total_orders |-> Whole(NUnique(d, "order_id")),
         total_items_sold |-> Whole(Len(d.rows)),
         average_order_value |-> SeriesMean(order_values),
         average_item_price |-> Mean(Col(d, "price")),
         median_order_value |-> SeriesMedian(order_values),
         revenue_std |-> SeriesVar(order_values)]

\* (current - base) / base on numpy floats.
GrowthRate(cur, base) == FDiv(FSub(cur, base), base)

calculate_revenue_metrics(d, comparison_df) ==
    LET metrics == BasicRevenueMetrics(d)
    IN  IF comparison_df = NoDf THEN Ok(metrics)
        ELSE LET comp_metrics == BasicRevenueMetrics(comparison_df)
                 revenue_growth_rate ==
                     GrowthRate(metrics.total_revenue, comp_metrics.total_revenue)
                 aov_growth_rate ==
                     GrowthRate(metrics.average_order_value,
                                comp_metrics.average_order_value)
             IN  \* int / int: Python raises on a zero divisor
                 IF comp_metrics.total_orders.n = 0
                 THEN Raise("ZeroDivisionError")
                 ELSE Ok(metrics @@
                         [revenue_growth_rate |-> revenue_growth_rate,
                          order_growth_rate |->
                              Num(metrics.total_orders.n - comp_metrics.total_orders.n,
                                  comp_metrics.total_orders.n),
                          aov_growth_rate |-> aov_growth_rate])

(***************************************************************************)
(* compare_periods (business_metrics.py 409-448).                          *)
(***************************************************************************)
DefaultCompareMetrics == <<"total_revenue", "total_orders", "average_order_value">>

\* Mutant of PercentChange: the ratio, not scaled to a percentage.
PercentChangeAsRatio(current_val, previous_val) ==
    FDiv(FSub(current_val, previous_val), previous_val)

\* ((current_val - previous_val) / previous_val) * 100
PercentChange(current_val, previous_val) ==
    FMul(FDiv(FSub(current_val, previous_val), previous_val), Whole(100))

ComparisonRow(metric, current_val, previous_val) ==
    [metric |-> metric,
     current_period |-> current_val,
     previous_period |-> previous_val,
     absolute_change |-> FSub(current_val, previous_val),
     percent_change |->
         \* previous_val != 0 is True for nan
         IF previous_val # Whole(0)
         THEN PercentChange(current_val, previous_val)
         ELSE NaN]

compare_periods(current_df, previous_df, metrics) ==
    LET current_metrics == BasicRevenueMetrics(current_df)
        previous_metrics == BasicRevenueMetrics(previous_df)
        known == SelectSeq(metrics, LAMBDA m : Has(current_metrics, m)
                                               /\ Has(previous_metrics, m))
    IN  Ok([i \in 1..Len(known) |->
               ComparisonRow(known[i], current_metrics[known[i]],
                             previous_metrics[known[i]])])

(***************************************************************************)
(* analyze_customer_experience (business_metrics.py 175-217).              *)
(***************************************************************************)
\* df.dropna(subset=[name])
DropNa(d, name) ==
    [d EXCEPT !.rows = SelectSeq(d.rows, LAMBDA r : r[name] # NullNum)]

\* Series.value_counts(normalize=True)
ValueCounts(s) ==
    [v \in {s[i] : i \in DOMAIN s} |->
        Num(Cardinality({i \in DOMAIN s : s[i] = v}), Len(s))]

\* delivery_data.groupby('delivery_category')
\*     .agg({'review_score': 'mean', 'order_id': 'nunique'})
DeliverySatisfaction(delivery_data) ==
    [c \in {delivery_data.rows[i].delivery_category :
                i \in 1..Len(delivery_data.rows)} |->
        LET g == Group(delivery_data, "delivery_category", c)
        IN  [review_score |-> Mean(Col(DropNa(g, "review_score"), "review_score")),
             order_id |-> NUnique(g, "order_id")]]

\* Mutant of ReviewMetrics: the index is taken over all rows, the rows
\* without a score included.
ReviewMetricsOverAllRows(d) ==
    IF "review_score" \in d.cols
    THEN LET review_data == DropNa(d, "review_score")
             scores == Col(review_data, "review_score")
             promoters == Len(SelectSeq(scores, LAMBDA x : x = 5))
             detractors == Len(SelectSeq(scores, LAMBDA x : x \in {1, 2}))
             total_reviews == Len(d.rows)
         IN  IF Len(review_data.rows) > 0
             THEN [avg_review_score |-> Mean(scores),
                   review_score_distribution |-> ValueCounts(scores),
                   nps_score |->
                       FMul(Num(promoters - detractors, total_reviews), Whole(100))]
             ELSE <<>>
    ELSE <<>>

ReviewMetrics(d) ==
    IF "review_score" \in d.cols
    THEN LET review_data == DropNa(d, "review_score")
             scores == Col(review_data, "review_score")
             promoters == Len(SelectSeq(scores, LAMBDA x : x = 5))
             detractors == Len(SelectSeq(scores, LAMBDA x : x \in {1, 2}))
             total_reviews == Len(review_data.rows)
         IN  IF Len(review_data.rows) > 0
             THEN [avg_review_score |-> Mean(scores),
                   review_score_distribution |-> ValueCounts(scores),
                   nps_score |->
                       FMul(Num(promoters - detractors, total_reviews), Whole(100))]
             ELSE <<>>
    ELSE <<>>

analyze_customer_experience(d) ==
    LET review == ReviewMetrics(d)
        delivery_data == DropNa(d, "delivery_days")
        days == Col(delivery_data, "delivery_days")
        delivery == [avg_delivery_days |-> Mean(days),
                     median_delivery_days |-> SeriesMedian(days)]
    IN  IF "delivery_days" \in d.cols /\ Len(delivery_data.rows) > 0
        THEN IF "delivery_category" \in d.cols
             THEN \* agg on a column the frame does not have
                  IF "review_score" \notin d.cols
                  THEN Raise("KeyError")
                  ELSE Ok(review @@ delivery @@
                          [delivery_satisfaction |->
                               DeliverySatisfaction(delivery_data)])
             ELSE Ok(review @@ delivery)
        ELSE Ok(review)

(***************************************************************************)
(* calculate_business_health_score (business_metrics.py 252-325).          *)
(***************************************************************************)
\* round(x, 1): to the nearest tenth, ties to the even tenth; nan and inf
\* are returned as they are.
Round1(x) ==
    IF ~IsNum(x) THEN x
    ELSE LET t == 10 * x.n
             q == t \div x.d
             r == t % x.d
             up == \/ 2 * r > x.d
                   \/ (2 * r = x.d /\ q % 2 = 1)
         IN  Num(IF up THEN q + 1 ELSE q, 10)

\* Mutant of RevenueScore: the growth term is not capped at +30 and -30.
RevenueScoreUncapped(revenue_metrics, comparison_df) ==
    LET g == revenue_metrics.revenue_growth_rate
        revenue_score ==
            IF comparison_df # NoDf
            THEN FAdd(Whole(70), FMul(g, Whole(100)))
            ELSE Whole(70)
    IN  PyMin(PyMax(revenue_score, Whole(0)), Whole(100))

RevenueScore(revenue_metrics, comparison_df) ==
    LET g == revenue_metrics.revenue_growth_rate
        revenue_score ==
            IF comparison_df # NoDf
            THEN IF FGt(g, Whole(0))
                 THEN FAdd(Whole(70), PyMin(FMul(g, Whole(100)), Whole(30)))
                 ELSE FAdd(Whole(70), PyMax(FMul(g, Whole(100)), Whole(-30)))
            ELSE Whole(70)
    IN  PyMin(PyMax(revenue_score, Whole(0)), Whole(100))

\* Mutant of CxScore: the contribution is added to the base of 70 and not
\* moved down by 30.
CxScoreUnadjusted(cx_metrics) ==
    LET review_contribution ==
            FMul(FDiv(FSub(cx_metrics.avg_review_score, Whole(1)), Whole(4)),
                 Whole(30))
        cx_score ==
            IF Has(cx_metrics, "avg_review_score")
            THEN FAdd(Whole(70), review_contribution)
            ELSE Whole(70)
    IN  PyMin(PyMax(cx_score, Whole(0)), Whole(100))

CxScore(cx_metrics) ==
    LET review_contribution ==
            FMul(FDiv(FSub(cx_metrics.avg_review_score, Whole(1)), Whole(4)),
                 Whole(30))
        cx_score ==
            IF Has(cx_metrics, "avg_review_score")
            THEN FSub(FAdd(Whole(70), review_contribution), Whole(30))
            ELSE Whole(70)
    IN  PyMin(PyMax(cx_score, Whole(0)), Whole(100))

OpsScore(cx_metrics) ==
    IF Has(cx_metrics, "avg_delivery_days")
    THEN IF FLe(cx_metrics.avg_delivery_days, Whole(5)) THEN Whole(90)
         ELSE IF FLe(cx_metrics.avg_delivery_days, Whole(10)) THEN Whole(80)
         ELSE IF FLe(cx_metrics.avg_delivery_days, Whole(15)) THEN Whole(70)
         ELSE Whole(50)
    ELSE Whole(70)

\* len(df[df['order_status'] == 'delivered']) / len(df) * 100, defined for a
\* frame with rows
FulfillmentScore(d) ==
    IF "order_status" \in d.cols
    THEN FMul(Num(Len(SelectSeq(d.rows, LAMBDA r : r.order_status = "delivered")),
                  Len(d.rows)),
              Whole(100))
    ELSE Whole(70)

\* The weights dict, in hundredths.
weights ==
    [revenue_score |-> 30, customer_experience_score |-> 25,
     operational_score |-> 20, fulfillment_score |-> 25]

\* sum(health_metrics[metric] * weight for metric, weight in weights.items())
WeightedSum(h) ==
    FAdd(FAdd(FAdd(FMul(h.revenue_score, Num(weights.revenue_score, 100)),
                   FMul(h.customer_experience_score,
                        Num(weights.customer_experience_score, 100))),
              FMul(h.operational_score, Num(weights.operational_score, 100))),
         FMul(h.fulfillment_score, Num(weights.fulfillment_score, 100)))

\* Mutant of OverallScore: the weighted sum, not rounded.
OverallScoreUnrounded(h) == WeightedSum(h)

OverallScore(h) == Round1(WeightedSum(h))

calculate_business_health_score(d, comparison_df) ==
    LET revenue_metrics == calculate_revenue_metrics(d, comparison_df)
        cx_metrics == analyze_customer_experience(d)
    IN  IF ~Returned(revenue_metrics) THEN revenue_metrics
        ELSE IF ~Returned(cx_metrics) THEN cx_metrics
        ELSE IF "order_status" \in d.cols /\ Len(d.rows) = 0
             THEN \* int / int with len(df) = 0
                  Raise("ZeroDivisionError")
        ELSE LET health_metrics ==
                     [revenue_score |->
                          RevenueScore(revenue_metrics.val, comparison_df),
                      customer_experience_score |-> CxScore(cx_metrics.val),
                      operational_score |-> OpsScore(cx_metrics.val),
                      fulfillment_score |-> FulfillmentScore(d)]
             IN  Ok(health_metrics @@
                    [overall_health_score |-> OverallScore(health_metrics)])

(***************************************************************************)
(* Sorting.  DataFrame.sort_values uses numpy's default quicksort, which   *)
(* is not a stable sort: the relative order of rows with equal keys is not *)
(* specified.  A caller of the operators below supplies the order the sort *)
(* produced, which is any one of the orders SortedDescending allows.       *)
(***************************************************************************)
Perms(S) ==
    {q \in [1..Cardinality(S) -> S] : \A i, j \in DOMAIN q : i # j => q[i] # q[j]}

\* The orders of the keys of f by value descending; f holds floats.
SortedDescending(f) ==
    {q \in Perms(DOMAIN f) :
        \A i, j \in DOMAIN q : i < j => ~FLt(f[q[i]], f[q[j]])}

\* DataFrame.head(n)
HeadN(s, n) == SubSeq(s, 1, IF n < Len(s) THEN n ELSE Len(s))

\* The keys of a groupby on column `name`: rows whose key is missing belong
\* to no group.
GroupKeys(d, name) ==
    {d.rows[i][name] : i \in 1..Len(d.rows)} \ {NullStr}

(***************************************************************************)
(* calculate_monthly_trends (business_metrics.py 64-93).                   *)
(***************************************************************************)
\* Mutant of MonthKeys: the groups ordered by month and then by year.
MonthKeysByMonth(d) ==
    LET keys == {<<d.rows[i].year, d.rows[i].month>> : i \in 1..Len(d.rows)}
    IN  CHOOSE q \in Perms(keys) :
            \A i, j \in DOMAIN q : i < j =>
                \/ q[i][2] < q[j][2]
                \/ (q[i][2] = q[j][2] /\ q[i][1] < q[j][1])

\* The (year, month) groups in ascending order, as groupby and sort_values
\* leave them (the keys are distinct, so the order is unique).
MonthKeys(d) ==
    LET keys == {<<d.rows[i].year, d.rows[i].month>> : i \in 1..Len(d.rows)}
    IN  CHOOSE q \in Perms(keys) :
            \A i, j \in DOMAIN q : i < j =>
                \/ q[i][1] < q[j][1]
                \/ (q[i][1] = q[j][1] /\ q[i][2] < q[j][2])

\* Series.pct_change(): nan for the first row, then (cur - prev) / prev in
\* float arithmetic.
PctChange(s, i) == IF i = 1 THEN NaN ELSE FDiv(FSub(s[i], s[i - 1]), s[i - 1])

calculate_monthly_trends(d) ==
    LET keys == MonthKeys(d)
        grp(i) == Group(Group(d, "year", keys[i][1]), "month", keys[i][2])
        revenue == [i \in DOMAIN keys |-> Whole(Sum(Col(grp(i), "total_revenue")))]
        orders == [i \in DOMAIN keys |-> Whole(NUnique(grp(i), "order_id"))]
        items_sold == [i \in DOMAIN keys |-> Whole(Len(grp(i).rows))]
        avg_order_value == [i \in DOMAIN keys |-> FDiv(revenue[i], orders[i])]
    IN  Ok([i \in DOMAIN keys |->
              [year |-> keys[i][1], month |-> keys[i][2],
               revenue |-> revenue[i], orders |-> orders[i],
               items_sold |-> items_sold[i],
               revenue_mom_growth |-> PctChange(revenue, i),
               orders_mom_growth |-> PctChange(orders, i),
               avg_order_value |-> avg_order_value[i],
               aov_mom_growth |-> PctChange(avg_order_value, i)]])

(***************************************************************************)
(* analyze_product_performance (business_metrics.py 96-133).               *)
(***************************************************************************)
CategoryRevenue(d) ==
    [c \in GroupKeys(d, "product_category_name") |->
        Whole(Sum(Col(Group(d, "product_category_name", c), "total_revenue")))]

\* Mutant of AvgItemsPerOrder: the rows of the category divided by the
\* number of orders of the whole frame.
AvgItemsPerOrderOverAllOrders(d) ==
    [c \in GroupKeys(d, "product_category_name") |->
        Num(Len(Group(d, "product_category_name", c).rows), NUnique(d, "order_id"))]

\* df.groupby(['order_id', 'product_category_name']).size(), then the mean
\* of the sizes per category.
AvgItemsPerOrder(d) ==
    [c \in GroupKeys(d, "product_category_name") |->
        LET g == Group(d, "product_category_name", c)
            items_per_order ==
                [o \in {g.rows[i].order_id : i \in 1..Len(g.rows)} |->
                    Len(Group(g, "order_id", o).rows)]
        IN  SeriesMean(items_per_order)]

CategoryRow(d, c) ==
    LET g == Group(d, "product_category_name", c)
    IN  [category |-> c,
         total_revenue |-> CategoryRevenue(d)[c],
         unique_orders |-> NUnique(g, "order_id"),
         items_sold |-> Len(g.rows),
         avg_price |-> Mean(Col(g, "price"))]

\* Mutant of analyze_product_performance: the market share is taken over
\* the revenue of the rows that have a category.
AnalyzeProductPerformanceOverCategorized(d, top_n, by_revenue, by_items) ==
    IF "product_category_name" \notin d.cols THEN Raise("KeyError")
    ELSE LET total_revenue ==
                 Whole(Sum(Col([d EXCEPT !.rows =
                                   SelectSeq(d.rows, LAMBDA r :
                                       r.product_category_name # NullStr)],
                               "total_revenue")))
             category_revenue == [i \in DOMAIN by_revenue |-> CategoryRow(d, by_revenue[i])]
             market_share ==
                 [i \in DOMAIN by_revenue |->
                     [category |-> by_revenue[i],
                      market_share |->
                          FDiv(category_revenue[i].total_revenue, total_revenue)]]
             avg_items_per_order ==
                 [i \in DOMAIN by_items |->
                     [product_category_name |-> by_items[i],
                      items_per_order |-> AvgItemsPerOrder(d)[by_items[i]]]]
         IN  Ok([category_performance |-> HeadN(category_revenue, top_n),
                 market_share |-> HeadN(market_share, top_n),
                 items_per_order |-> HeadN(avg_items_per_order, top_n)])

\* by_revenue and by_items are the orders the two sort_values calls produced.
analyze_product_performance(d, top_n, by_revenue, by_items) ==
    IF "product_category_name" \notin d.cols THEN Raise("KeyError")
    ELSE LET total_revenue == Whole(Sum(Col(d, "total_revenue")))
             category_revenue == [i \in DOMAIN by_revenue |-> CategoryRow(d, by_revenue[i])]
             market_share ==
                 [i \in DOMAIN by_revenue |->
                     [category |-> by_revenue[i],
                      market_share |->
                          FDiv(category_revenue[i].total_revenue, total_revenue)]]
             avg_items_per_order ==
                 [i \in DOMAIN by_items |->
                     [product_category_name |-> by_items[i],
                      items_per_order |-> AvgItemsPerOrder(d)[by_items[i]]]]
         IN  Ok([category_performance |-> HeadN(category_revenue, top_n),
                 market_share |-> HeadN(market_share, top_n),
                 items_per_order |-> HeadN(avg_items_per_order, top_n)])

(***************************************************************************)
(* analyze_geographic_performance (business_metrics.py 136-172).           *)
(***************************************************************************)
StateRevenue(d) ==
    [st \in GroupKeys(d, "customer_state") |->
        Whole(Sum(Col(Group(d, "customer_state", st), "total_revenue")))]

StateRow(d, st) ==
    LET g == Group(d, "customer_state", st)
    IN  [state |-> st,
         total_revenue |-> StateRevenue(d)[st],
         total_orders |-> NUnique(g, "order_id"),
         unique_customers |-> NUnique(g, "customer_id"),
         avg_item_price |-> Mean(Col(g, "price")),
         revenue_per_customer |->
             FDiv(StateRevenue(d)[st], Whole(NUnique(g, "customer_id")))]

\* DataFrame.nlargest(n, column), keep='first': by the column descending,
\* rows with equal values in the order they have in the frame.
NLargest(s, n, column) ==
    LET q == CHOOSE o \in Perms(DOMAIN s) :
                 \A i, j \in DOMAIN o : i < j =>
                     \/ s[o[i]][column] > s[o[j]][column]
                     \/ (s[o[i]][column] = s[o[j]][column] /\ o[i] < o[j])
    IN  HeadN([i \in DOMAIN q |-> s[q[i]]], n)

\* Mutant of analyze_geographic_performance: the customer ranking is taken
\* among the top_n states by revenue.
AnalyzeGeographicPerformanceWithinTop(d, top_n, by_revenue) ==
    IF "customer_state" \notin d.cols THEN Raise("KeyError")
    ELSE LET state_performance == [i \in DOMAIN by_revenue |-> StateRow(d, by_revenue[i])]
             top == NLargest(HeadN(state_performance, top_n), top_n, "unique_customers")
         IN  Ok([state_performance |-> HeadN(state_performance, top_n),
                 top_customer_states |->
                     [i \in DOMAIN top |->
                         [state |-> top[i].state,
                          unique_customers |-> top[i].unique_customers,
                          total_revenue |-> top[i].total_revenue]]])

\* by_revenue is the order the sort_values call produced.
analyze_geographic_performance(d, top_n, by_revenue) ==
    IF "customer_state" \notin d.cols THEN Raise("KeyError")
    ELSE LET state_performance == [i \in DOMAIN by_revenue |-> StateRow(d, by_revenue[i])]
             top == NLargest(state_performance, top_n, "unique_customers")
         IN  Ok([state_performance |-> HeadN(state_performance, top_n),
                 top_customer_states |->
                     [i \in DOMAIN top |->
                         [state |-> top[i].state,
                          unique_customers |-> top[i].unique_customers,
                          total_revenue |-> top[i].total_revenue]]])

(***************************************************************************)
(* calculate_cohort_analysis (business_metrics.py 220-249).                *)
(***************************************************************************)
\* Timestamps compare chronologically.
TsLe(a, b) ==
    \/ a.y < b.y
    \/ (a.y = b.y /\ a.m < b.m)
    \/ (a.y = b.y /\ a.m = b.m /\ a.d <= b.d)

\* Series.dt.to_period('M'): the ordinal of the calendar month (months since
\* January 1970).
ToPeriodM(ts) == (ts.y - 1970) * 12 + (ts.m - 1)

\* Mutant of FirstPurchase: the customer's latest purchase.
FirstPurchaseLatest(d, c) ==
    LET g == Group(d, "customer_id", c)
    IN  CHOOSE t \in {g.rows[i].order_purchase_timestamp : i \in 1..Len(g.rows)} :
            \A i \in 1..Len(g.rows) : TsLe(g.rows[i].order_purchase_timestamp, t)

\* Mutant of FirstPurchase: the customer's first row in frame order, not the
\* earliest.
FirstPurchaseInFrameOrder(d, c) ==
    Group(d, "customer_id", c).rows[1].order_purchase_timestamp

\* df.groupby('customer_id')['order_purchase_timestamp'].min()
FirstPurchase(d, c) ==
    LET g == Group(d, "customer_id", c)
    IN  CHOOSE t \in {g.rows[i].order_purchase_timestamp : i \in 1..Len(g.rows)} :
            \A i \in 1..Len(g.rows) : TsLe(t, g.rows[i].order_purchase_timestamp)

\* The merged frame: every row with its first_purchase_month, order_month and
\* period_number (the n of the difference of the two monthly periods).
CohortRows(d) ==
    [i \in 1..Len(d.rows) |->
        LET r == d.rows[i]
            first_purchase_month == ToPeriodM(FirstPurchase(d, r.customer_id))
            order_month == ToPeriodM(r.order_purchase_timestamp)
        IN  [customer_id |-> r.customer_id,
             first_purchase_month |-> first_purchase_month,
             order_month |-> order_month,
             period_number |-> order_month - first_purchase_month]]

\* Mutant of calculate_cohort_analysis: a cell counts the rows of its group,
\* not the distinct customers.
CohortAnalysisCountingRows(d) ==
    LET df_cohort == CohortRows(d)
        index == {df_cohort[i].first_purchase_month : i \in DOMAIN df_cohort}
        columns == {df_cohort[i].period_number : i \in DOMAIN df_cohort}
        group(m, n) ==
            {j \in DOMAIN df_cohort :
                /\ df_cohort[j].first_purchase_month = m
                /\ df_cohort[j].period_number = n}
    IN  Ok([index |-> index,
            columns |-> columns,
            cells |-> [cell \in index \X columns |->
                          IF group(cell[1], cell[2]) = {} THEN NaN
                          ELSE Whole(Cardinality(group(cell[1], cell[2])))]])

\* The pivot: one row per cohort month, one column per period number; a
\* (cohort, period) pair that no group has is a nan cell.
calculate_cohort_analysis(d) ==
    LET df_cohort == CohortRows(d)
        index == {df_cohort[i].first_purchase_month : i \in DOMAIN df_cohort}
        columns == {df_cohort[i].period_number : i \in DOMAIN df_cohort}
        customers(m, n) ==
            {df_cohort[i].customer_id :
                i \in {j \in DOMAIN df_cohort :
                          /\ df_cohort[j].first_purchase_month = m
                          /\ df_cohort[j].period_number = n}}
    IN  Ok([index |-> index,
            columns |-> columns,
            cells |-> [cell \in index \X columns |->
                          IF customers(cell[1], cell[2]) = {} THEN NaN
                          ELSE Whole(Cardinality(customers(cell[1], cell[2])))]])

(***************************************************************************)
(* aggregate_by_time_period (business_metrics.py 368-406).                 *)
(***************************************************************************)
\* Days since 1970-01-01 of a calendar date.
DaysFromCivil(ts) ==
    LET y == IF ts.m <= 2 THEN ts.y - 1 ELSE ts.y
        era == y \div 400
        yoe == y - era * 400
        mp == IF ts.m > 2 THEN ts.m - 3 ELSE ts.m + 9
        doy == (153 * mp + 2) \div 5 + ts.d - 1
        doe == yoe * 365 + yoe \div 4 - yoe \div 100 + doy
    IN  era * 146097 + doe - 719468

\* The value of the period column: the frequency and the ordinal of the
\* period the timestamp falls in (weeks end on Sunday).
PeriodOf(period, ts) ==
    IF period = "day" THEN <<"D", DaysFromCivil(ts)>>
    ELSE IF period = "week" THEN <<"W", (DaysFromCivil(ts) + 3) \div 7 + 1>>
    ELSE IF period = "month" THEN <<"M", ToPeriodM(ts)>>
    ELSE IF period = "quarter" THEN <<"Q", (ts.y - 1970) * 4 + (ts.m - 1) \div 3>>
    ELSE <<"Y", ts.y - 1970>>

ValidPeriods == {"day", "week", "month", "quarter", "year"}

DefaultAggregateMetrics == <<"total_revenue", "order_id", "customer_id">>

\* The frame the call leaves behind: df['period'] = ... assigns a column of
\* the caller's DataFrame.
WithPeriodColumn(d, period) ==
    IF period \in ValidPeriods
    THEN [cols |-> d.cols \cup {"period"},
          rows |-> [i \in 1..Len(d.rows) |->
                       [d.rows[i] EXCEPT
                           !.period = PeriodOf(period, d.rows[i].order_purchase_timestamp)]]]
    ELSE d

aggregate_by_time_period(d, period, metrics) ==
    LET frame == WithPeriodColumn(d, period)
        keys == {frame.rows[i].period : i \in 1..Len(frame.rows)}
        g(key) == Group(frame, "period", key)
        agg(key, metric) ==
            IF metric \in {"order_id", "customer_id"}
            THEN NUnique(g(key), metric)
            ELSE Sum(Col(g(key), metric))
    IN  IF "period" \notin frame.cols THEN Raise("KeyError")
        ELSE IF \E i \in DOMAIN metrics : metrics[i] \notin frame.cols
             THEN Raise("KeyError")
        ELSE Ok([key \in keys |->
                   [i \in DOMAIN metrics |-> <<metrics[i], agg(key, metrics[i])>>]])

(***************************************************************************)
(* generate_executive_summary (business_metrics.py 328-364).               *)
(***************************************************************************)
SummaryTopN == 5

generate_executive_summary(d, comparison_df, period_label, categories_by_revenue, categories_by_items, states_by_revenue) ==
    LET revenue_metrics == calculate_revenue_metrics(d, comparison_df)
        product_performance ==
            analyze_product_performance(d, SummaryTopN, categories_by_revenue,
                                        categories_by_items)
        geo_performance ==
            analyze_geographic_performance(d, SummaryTopN, states_by_revenue)
        cx_metrics == analyze_customer_experience(d)
        health_score == calculate_business_health_score(d, comparison_df)
        names(t, column) == [i \in DOMAIN t |-> t[i][column]]
    IN  IF ~Returned(revenue_metrics) THEN revenue_metrics
        ELSE IF ~Returned(product_performance) THEN product_performance
        ELSE IF ~Returned(geo_performance) THEN geo_performance
        ELSE IF ~Returned(cx_metrics) THEN cx_metrics
        ELSE IF ~Returned(health_score) THEN health_score
        ELSE Ok([period |-> period_label]
                @@ cx_metrics.val
                @@ [health_score |-> health_score.val.overall_health_score,
                    top_categories |->
                        names(product_performance.val.category_performance, "category"),
                    top_states |->
                        names(geo_performance.val.state_performance, "state")]
                @@ revenue_metrics.val)

(***************************************************************************)
(* The state machine.  df is the primary RecordSet and comp the comparison *)
(* RecordSet the caller holds; df0 is df as it was constructed; op is the  *)
(* last call made and result its outcome.                                  *)
(***************************************************************************)
NoOp == [name |-> "none", withComp |-> FALSE, period |-> "", top_n |-> 0,
         metrics |-> <<>>]

Called(name) == op.name = name

\* Frames for the revenue calculators: only order, price and freight vary.
RevenueRows ==
    {MkRow(o, o, pf[1], pf[2], "delivered", Date(2023, 1, 15), "a", "SP", 5, 3) :
        o \in {1, 2}, pf \in {<<0, 0>>, <<1000, 500>>, <<2500, 0>>}}

CompRows ==
    {MkRow(q[1], q[1], q[2], 0, "delivered", Date(2022, 12, 15), "a", "SP", 5, 3) :
        q \in {<<1, 0>>, <<1, 1500>>, <<2, 2000>>}}

Frame(rows) == [cols |-> AllCols, rows |-> rows]

InitRevenue ==
    /\ df \in {Frame(rows) : rows \in SeqsUpTo(RevenueRows, MaxRows)}
    /\ comp \in {Frame(rows) : rows \in SeqsUpTo(CompRows, MaxCompRows)}
    /\ df0 = df
    /\ op = NoOp
    /\ result = Ok(<<>>)

\* The orders the sort_values calls of the two rankings can produce.
CategoryOrdersByRevenue(d) ==
    IF "product_category_name" \in d.cols
    THEN SortedDescending(CategoryRevenue(d)) ELSE {<<>>}

CategoryOrdersByItems(d) ==
    IF "product_category_name" \in d.cols
    THEN SortedDescending(AvgItemsPerOrder(d)) ELSE {<<>>}

StateOrdersByRevenue(d) ==
    IF "customer_state" \in d.cols
    THEN SortedDescending(StateRevenue(d)) ELSE {<<>>}

TopNs == {1, 2}

Periods == ValidPeriods \cup {"hour"}

AggregateMetrics == {DefaultAggregateMetrics, <<"price">>}

CompareMetrics == {DefaultCompareMetrics, <<"total_items_sold", "health_score">>}

\* Every outcome the call `o` can have on the frame d with the comparison
\* frame c.
Outcomes(o, d, c) ==
    LET cmp == IF o.withComp THEN c ELSE NoDf
    IN  CASE o.name = "calculate_revenue_metrics" ->
                {calculate_revenue_metrics(d, cmp)}
          [] o.name = "calculate_monthly_trends" ->
                {calculate_monthly_trends(d)}
          [] o.name = "analyze_product_performance" ->
                {analyze_product_performance(d, o.top_n, r, n) :
                    r \in CategoryOrdersByRevenue(d), n \in CategoryOrdersByItems(d)}
          [] o.name = "analyze_geographic_performance" ->
                {analyze_geographic_performance(d, o.top_n, r) :
                    r \in StateOrdersByRevenue(d)}
          [] o.name = "analyze_customer_experience" ->
                {analyze_customer_experience(d)}
          [] o.name = "calculate_cohort_analysis" ->
                {calculate_cohort_analysis(d)}
          [] o.name = "calculate_business_health_score" ->
                {calculate_business_health_score(d, cmp)}
          [] o.name = "generate_executive_summary" ->
                {generate_executive_summary(d, cmp, "Analysis Period", r, n, g) :
                    r \in CategoryOrdersByRevenue(d),
                    n \in CategoryOrdersByItems(d),
                    g \in StateOrdersByRevenue(d)}
          [] o.name = "aggregate_by_time_period" ->
                {aggregate_by_time_period(d, o.period, o.metrics)}
          [] o.name = "compare_periods" ->
                {compare_periods(d, c, o.metrics)}
          [] OTHER -> {Ok(<<>>)}

\* The comparison frame a call is given: the caller's, or None.
Comparison(withComp) == IF withComp THEN comp ELSE NoDf

CalculateRevenueMetrics ==
    \E c \in BOOLEAN :
        /\ op' = [NoOp EXCEPT !.name = "calculate_revenue_metrics", !.withComp = c]
        /\ result' = calculate_revenue_metrics(df, Comparison(c))
        /\ UNCHANGED <<df, comp, df0>>

CalculateMonthlyTrends ==
    /\ op' = [NoOp EXCEPT !.name = "calculate_monthly_trends"]
    /\ result' = calculate_monthly_trends(df)
    /\ UNCHANGED <<df, comp, df0>>

AnalyzeProductPerformance ==
    \E n \in TopNs, r \in CategoryOrdersByRevenue(df), i \in CategoryOrdersByItems(df) :
        /\ op' = [NoOp EXCEPT !.name = "analyze_product_performance", !.top_n = n]
        /\ result' = analyze_product_performance(df, n, r, i)
        /\ UNCHANGED <<df, comp, df0>>

AnalyzeGeographicPerformance ==
    \E n \in TopNs, r \in StateOrdersByRevenue(df) :
        /\ op' = [NoOp EXCEPT !.name = "analyze_geographic_performance", !.top_n = n]
        /\ result' = analyze_geographic_performance(df, n, r)
        /\ UNCHANGED <<df, comp, df0>>

AnalyzeCustomerExperience ==
    /\ op' = [NoOp EXCEPT !.name = "analyze_customer_experience"]
    /\ result' = analyze_customer_experience(df)
    /\ UNCHANGED <<df, comp, df0>>

CalculateCohortAnalysis ==
    /\ op' = [NoOp EXCEPT !.name = "calculate_cohort_analysis"]
    /\ result' = calculate_cohort_analysis(df)
    /\ UNCHANGED <<df, comp, df0>>

CalculateBusinessHealthScore ==
    \E c \in BOOLEAN :
        /\ op' = [NoOp EXCEPT !.name = "calculate_business_health_score",
                              !.withComp = c]
        /\ result' = calculate_business_health_score(df, Comparison(c))
        /\ UNCHANGED <<df, comp, df0>>

GenerateExecutiveSummary ==
    \E c \in BOOLEAN, r \in CategoryOrdersByRevenue(df),
       i \in CategoryOrdersByItems(df), g \in StateOrdersByRevenue(df) :
        /\ op' = [NoOp EXCEPT !.name = "generate_executive_summary", !.withComp = c]
        /\ result' = generate_executive_summary(df, Comparison(c), "Analysis Period",
                                                r, i, g)
        /\ UNCHANGED <<df, comp, df0>>

\* aggregate_by_time_period assigns the period column of the frame it is
\* given (business_metrics.py 386-395) before it groups.
AggregateByTimePeriod ==
    \E p \in Periods, m \in AggregateMetrics :
        /\ op' = [NoOp EXCEPT !.name = "aggregate_by_time_period", !.period = p,
                              !.metrics = m]
        /\ result' = aggregate_by_time_period(df, p, m)
        /\ df' = WithPeriodColumn(df, p)
        /\ UNCHANGED <<comp, df0>>

ComparePeriods ==
    \E m \in CompareMetrics :
        /\ op' = [NoOp EXCEPT !.name = "compare_periods", !.withComp = TRUE,
                              !.metrics = m]
        /\ result' = compare_periods(df, comp, m)
        /\ UNCHANGED <<df, comp, df0>>

(***************************************************************************)
(* Spec: every calculator, on frames that differ in their rows and in the  *)
(* optional columns they have.                                             *)
(***************************************************************************)
GeneralRows ==
    {MkRow(1, 1, 1000, 500, "delivered", Date(2023, 1, 15), "a", "SP", 5, 3),
     MkRow(2, 1, 1500, 0, "canceled", Date(2023, 3, 2), "b", "RJ", 1, NullNum),
     MkRow(3, 2, 0, 0, "delivered", Date(2023, 3, 20), NullStr, "SP", NullNum, 12)}

GeneralCompRow ==
    MkRow(9, 1, 1000, 0, "delivered", Date(2022, 12, 30), "a", "SP", 4, 6)

\* The column sets: every combination of the three customer-experience
\* columns, every combination of category and geography, and a frame
\* without order_status.
ColSets ==
    {AllCols \ x : x \in SUBSET {"review_score", "delivery_days", "delivery_category"}}
    \cup {AllCols \ x : x \in SUBSET {"product_category_name", "customer_state"}}
    \cup {AllCols \ {"order_status"}}

Init ==
    /\ \/ /\ df \in {Frame(rows) : rows \in SeqsUpTo(GeneralRows, MaxRows)}
          /\ comp \in {Frame(<<>>), Frame(<<GeneralCompRow>>)}
       \/ /\ df \in {[cols |-> cs, rows |-> rows] :
                        cs \in ColSets \ {AllCols},
                        rows \in SeqsUpTo(GeneralRows, MaxCompRows)}
          /\ comp = Frame(<<GeneralCompRow>>)
    /\ df0 = df
    /\ op = NoOp
    /\ result = Ok(<<>>)

Next ==
    \/ CalculateRevenueMetrics
    \/ CalculateMonthlyTrends
    \/ AnalyzeProductPerformance
    \/ AnalyzeGeographicPerformance
    \/ AnalyzeCustomerExperience
    \/ CalculateCohortAnalysis
    \/ CalculateBusinessHealthScore
    \/ GenerateExecutiveSummary
    \/ AggregateByTimePeriod
    \/ ComparePeriods

Spec == Init /\ [][Next]_vars

(***************************************************************************)
(* SpecRevenue: the revenue calculators, on frames that differ in their    *)
(* orders, prices and freight values.                                      *)
(***************************************************************************)
NextRevenue ==
    \/ CalculateRevenueMetrics
    \/ ComparePeriods
    \/ CalculateBusinessHealthScore

SpecRevenue == InitRevenue /\ [][NextRevenue]_vars

(***************************************************************************)
(* SpecCohort: the cohort analysis, on frames that differ in the customer  *)
(* and the purchase date of their rows.  The dates cross a year boundary   *)
(* and put a late day of one month next to an early day of a later month.  *)
(***************************************************************************)
CohortDates == {Date(2022, 12, 20), Date(2023, 1, 31), Date(2023, 3, 1)}

CohortRowSet ==
    {MkRow(10 * c + ts.m, c, 1000, 0, "delivered", ts, "a", "SP", 5, 3) :
        c \in {1, 2}, ts \in CohortDates}

InitCohort ==
    /\ df \in {Frame(rows) : rows \in SeqsUpTo(CohortRowSet, MaxCohortRows)}
    /\ comp = Frame(<<>>)
    /\ df0 = df
    /\ op = NoOp
    /\ result = Ok(<<>>)

NextCohort == CalculateCohortAnalysis

SpecCohort == InitCohort /\ [][NextCohort]_vars

(***************************************************************************)
(* SpecExperience: the customer-experience analysis and the health score,  *)
(* on frames that differ in the review score, the delivery time and the    *)
(* status of their rows, with and without the review columns.              *)
(***************************************************************************)
ExperienceRows ==
    {MkRow(1, 1, 1000, 0, x[1], Date(2023, 1, 15), "a", "SP", x[2], x[3]) :
        x \in {<<"delivered", 5, 3>>, <<"delivered", 4, 8>>,
               <<"canceled", 2, 12>>, <<"delivered", 1, 20>>,
               <<"canceled", NullNum, NullNum>>, <<"delivered", NullNum, 6>>}}

ExperienceCompRow ==
    MkRow(9, 1, 2500, 0, "delivered", Date(2022, 12, 15), "a", "SP", 5, 3)

ExperienceColSets == {AllCols, AllCols \ {"review_score", "delivery_category"}}

InitExperience ==
    /\ df \in {[cols |-> cs, rows |-> rows] :
                  cs \in ExperienceColSets,
                  rows \in SeqsUpTo(ExperienceRows, MaxExperienceRows)}
    /\ comp = Frame(<<ExperienceCompRow>>)
    /\ df0 = df
    /\ op = NoOp
    /\ result = Ok(<<>>)

NextExperience ==
    \/ AnalyzeCustomerExperience
    \/ CalculateBusinessHealthScore

SpecExperience == InitExperience /\ [][NextExperience]_vars

(***************************************************************************)
(* SpecTrends: the monthly trends, on frames that differ in the order, the *)
(* price and the purchase date of their rows.  The dates cross a year      *)
(* boundary and the rows come in any order.                                *)
(***************************************************************************)
TrendRows ==
    {MkRow(o, o, p, 0, "delivered", ts, "a", "SP", 5, 3) :
        o \in {1, 2}, p \in {0, 1000}, ts \in CohortDates}

InitTrends ==
    /\ df \in {Frame(rows) : rows \in SeqsUpTo(TrendRows, MaxTrendRows)}
    /\ comp = Frame(<<>>)
    /\ df0 = df
    /\ op = NoOp
    /\ result = Ok(<<>>)

NextTrends == CalculateMonthlyTrends

SpecTrends == InitTrends /\ [][NextTrends]_vars

(***************************************************************************)
(* SpecRanking: the product and the geographic analysis, on frames that    *)
(* differ in the order, the customer, the price, the category and the      *)
(* state of their rows.  Two categories can have equal revenue, a row can  *)
(* lack a category or a state, and a row can have no revenue.              *)
(***************************************************************************)
RankingRows ==
    {MkRow(x[1], x[2], x[3], 0, "delivered", Date(2023, 1, 15), x[4], x[5], 5, 3) :
        x \in {<<1, 1, 1000, "a", "SP">>, <<2, 2, 1000, "b", "SP">>,
               <<3, 1, 3000, "b", "RJ">>, <<1, 1, 0, "a", "SP">>,
               <<2, 2, 1000, NullStr, "SP">>, <<2, 2, 1000, "a", "RJ">>,
               <<4, 3, 500, "b", NullStr>>}}

InitRanking ==
    /\ df \in {Frame(rows) : rows \in SeqsUpTo(RankingRows, MaxRankingRows)}
    /\ comp = Frame(<<>>)
    /\ df0 = df
    /\ op = NoOp
    /\ result = Ok(<<>>)

NextRanking ==
    \/ AnalyzeProductPerformance
    \/ AnalyzeGeographicPerformance

SpecRanking == InitRanking /\ [][NextRanking]_vars

(***************************************************************************)
(* data_loader.py: the steps that build the analysis RecordSet from the    *)
(* raw tables.  A raw table is a sequence of records.                      *)
(***************************************************************************)
\* A missing date (NaT), and the None of an optional year or month.
NaT == [y |-> 0, m |-> 0, d |-> 0]

NoneInt == 0

\* table[[...fields]]
Project(table, fields) ==
    [i \in DOMAIN table |-> [f \in fields |-> table[i][f]]]

RECURSIVE Concat(_)
Concat(ss) == IF ss = <<>> THEN <<>> ELSE Head(ss) \o Concat(Tail(ss))

\* pd.merge(left, right, on=key, how=how): one output row per pair of a left
\* row and a right row with the same key, in the order of the left rows;
\* with how='left' a left row without a match is kept once, the columns of
\* the right table missing.
Merge(left, right, key, how, missing) ==
    Concat([i \in DOMAIN left |->
               LET matches == SelectSeq(right, LAMBDA x : x[key] = left[i][key])
               IN  IF matches = <<>>
                   THEN (IF how = "left" THEN <<left[i] @@ missing>> ELSE <<>>)
                   ELSE [j \in DOMAIN matches |-> left[i] @@ matches[j]]])

SalesCols ==
    {"order_id", "order_item_id", "product_id", "price", "freight_value",
     "order_status", "order_purchase_timestamp", "order_delivered_customer_date",
     "customer_id", "year", "month", "quarter", "total_revenue"}

\* Mutant of prepare_sales_data: total_revenue is the price alone.
PrepareSalesDataPriceOnly(datasets) ==
    LET merged ==
            Merge(Project(datasets.order_items,
                          {"order_id", "order_item_id", "product_id", "price",
                           "freight_value"}),
                  Project(datasets.orders,
                          {"order_id", "order_status", "order_purchase_timestamp",
                           "order_delivered_customer_date", "customer_id"}),
                  "order_id", "inner", [order_status |-> NullStr])
    IN  [cols |-> SalesCols,
         rows |-> [i \in DOMAIN merged |->
                      merged[i] @@
                      [year |-> merged[i].order_purchase_timestamp.y,
                       month |-> merged[i].order_purchase_timestamp.m,
                       quarter |-> (merged[i].order_purchase_timestamp.m - 1) \div 3 + 1,
                       total_revenue |-> merged[i].price]]]

prepare_sales_data(datasets) ==
    LET merged ==
            Merge(Project(datasets.order_items,
                          {"order_id", "order_item_id", "product_id", "price",
                           "freight_value"}),
                  Project(datasets.orders,
                          {"order_id", "order_status", "order_purchase_timestamp",
                           "order_delivered_customer_date", "customer_id"}),
                  "order_id", "inner", [order_status |-> NullStr])
    IN  [cols |-> SalesCols,
         rows |-> [i \in DOMAIN merged |->
                      merged[i] @@
                      [year |-> merged[i].order_purchase_timestamp.y,
                       month |-> merged[i].order_purchase_timestamp.m,
                       quarter |-> (merged[i].order_purchase_timestamp.m - 1) \div 3 + 1,
                       total_revenue |-> merged[i].price + merged[i].freight_value]]]

\* The boolean-mask filters, applied one after the other.
filter_delivered_orders(sales_data, year, month, start_date, end_date) ==
    LET keep(r) ==
            /\ r.order_status = "delivered"
            /\ (year # NoneInt) => r.year = year
            /\ (month # NoneInt /\ year # NoneInt) => r.month = month
            /\ (start_date # NaT) => TsLe(start_date, r.order_purchase_timestamp)
            /\ (end_date # NaT) => TsLe(r.order_purchase_timestamp, end_date)
    IN  [sales_data EXCEPT !.rows = SelectSeq(sales_data.rows, keep)]

add_product_categories(sales_data, products_df) ==
    [cols |-> sales_data.cols \cup {"product_category_name"},
     rows |-> Merge(sales_data.rows,
                    Project(products_df, {"product_id", "product_category_name"}),
                    "product_id", "left", [product_category_name |-> NullStr])]

add_customer_geography(sales_data, customers_df) ==
    [cols |-> sales_data.cols \cup {"customer_state", "customer_city"},
     rows |-> Merge(sales_data.rows,
                    Project(customers_df,
                            {"customer_id", "customer_state", "customer_city"}),
                    "customer_id", "left",
                    [customer_state |-> NullStr, customer_city |-> NullStr])]

\* The review merge, then delivery_days (whole days from purchase to
\* delivery, missing without a delivery date) and its category.
add_customer_experience_data(sales_data, reviews_df) ==
    LET enriched ==
            Merge(sales_data.rows, Project(reviews_df, {"order_id", "review_score"}),
                  "order_id", "left", [review_score |-> NullNum])
        delivery_days(r) ==
            IF r.order_delivered_customer_date # NaT
            THEN DaysFromCivil(r.order_delivered_customer_date)
                     - DaysFromCivil(r.order_purchase_timestamp)
            ELSE NullNum
    IN  [cols |-> sales_data.cols \cup {"review_score", "delivery_days",
                                         "delivery_category"},
         rows |-> [i \in DOMAIN enriched |->
                      enriched[i] @@
                      [delivery_days |-> delivery_days(enriched[i]),
                       delivery_category |->
                           categorize_delivery_speed(delivery_days(enriched[i]))]]]

(***************************************************************************)
(* SpecLoader: the loader pipeline in the order of create_analysis_dataset *)
(* (filter, categories, geography, customer experience), with the revenue  *)
(* metrics computed at any stage.  df is the sales frame as the last step  *)
(* returned it and df0 the frame that step was given.  The lookup tables   *)
(* can lack a key and can hold a key more than once.                       *)
(***************************************************************************)
ItemRows ==
    {[order_id |-> x[1], order_item_id |-> x[2], product_id |-> x[3],
      price |-> x[4], freight_value |-> x[5]] :
        x \in {<<1, 1, "p1", 1000, 500>>, <<1, 2, "p2", 2500, 0>>,
               <<2, 1, "p1", 1500, 0>>, <<3, 1, "p2", 1000, 250>>}}

OrdersTable ==
    <<[order_id |-> 1, order_status |-> "delivered",
       order_purchase_timestamp |-> Date(2023, 1, 15),
       order_delivered_customer_date |-> Date(2023, 1, 18), customer_id |-> 1],
      [order_id |-> 2, order_status |-> "delivered",
       order_purchase_timestamp |-> Date(2022, 12, 20),
       order_delivered_customer_date |-> Date(2023, 1, 2), customer_id |-> 2],
      [order_id |-> 3, order_status |-> "canceled",
       order_purchase_timestamp |-> Date(2023, 3, 1),
       order_delivered_customer_date |-> NaT, customer_id |-> 1]>>

ProductRow(p, c) == [product_id |-> p, product_category_name |-> c]

ProductTables ==
    {<<>>, <<ProductRow("p1", "a")>>,
     <<ProductRow("p1", "a"), ProductRow("p2", "b")>>,
     <<ProductRow("p1", "a"), ProductRow("p1", "b")>>}

CustomerRow(c, st) == [customer_id |-> c, customer_state |-> st, customer_city |-> "x"]

CustomerTables ==
    {<<CustomerRow(1, "SP")>>,
     <<CustomerRow(1, "SP"), CustomerRow(2, "RJ")>>,
     <<CustomerRow(1, "SP"), CustomerRow(1, "RJ")>>}

ReviewRow(o, rs) == [order_id |-> o, review_score |-> rs]

ReviewTables ==
    {<<>>, <<ReviewRow(1, 5)>>,
     <<ReviewRow(1, 5), ReviewRow(2, 4)>>,
     <<ReviewRow(1, 5), ReviewRow(1, 3)>>}

InitLoader ==
    /\ df \in {prepare_sales_data([order_items |-> items, orders |-> OrdersTable]) :
                  items \in SeqsUpTo(ItemRows, MaxItemRows)}
    /\ comp = Frame(<<>>)
    /\ df0 = df
    /\ op = NoOp
    /\ result = Ok(<<>>)

FilterDeliveredOrders ==
    \E year \in {NoneInt, 2023}, month \in {NoneInt, 1},
       start_date \in {NaT, Date(2023, 1, 1)}, end_date \in {NaT, Date(2023, 1, 31)} :
        /\ "product_category_name" \notin df.cols
        /\ op.name \in {"none", "calculate_revenue_metrics"}
        /\ op' = [NoOp EXCEPT !.name = "filter_delivered_orders"]
        /\ df' = filter_delivered_orders(df, year, month, start_date, end_date)
        /\ df0' = df
        /\ result' = Ok(<<>>)
        /\ UNCHANGED comp

AddProductCategories ==
    \E products_df \in ProductTables :
        /\ "product_category_name" \notin df.cols
        /\ op' = [NoOp EXCEPT !.name = "add_product_categories"]
        /\ df' = add_product_categories(df, products_df)
        /\ df0' = df
        /\ result' = Ok(<<>>)
        /\ UNCHANGED comp

AddCustomerGeography ==
    \E customers_df \in CustomerTables :
        /\ "product_category_name" \in df.cols
        /\ "customer_state" \notin df.cols
        /\ op' = [NoOp EXCEPT !.name = "add_customer_geography"]
        /\ df' = add_customer_geography(df, customers_df)
        /\ df0' = df
        /\ result' = Ok(<<>>)
        /\ UNCHANGED comp

AddCustomerExperienceData ==
    \E reviews_df \in ReviewTables :
        /\ "customer_state" \in df.cols
        /\ "review_score" \notin df.cols
        /\ op' = [NoOp EXCEPT !.name = "add_customer_experience_data"]
        /\ df' = add_customer_experience_data(df, reviews_df)
        /\ df0' = df
        /\ result' = Ok(<<>>)
        /\ UNCHANGED comp

NextLoader ==
    \/ FilterDeliveredOrders
    \/ AddProductCategories
    \/ AddCustomerGeography
    \/ AddCustomerExperienceData
    \/ CalculateRevenueMetrics

SpecLoader == InitLoader /\ [][NextLoader]_vars

(***************************************************************************)
(* Properties.                                                             *)
(***************************************************************************)
InRange(x, lo, hi) == IsNum(x) /\ FLe(Whole(lo), x) /\ FLe(x, Whole(hi))

\* C1: when the comparison frame has a zero base value (total revenue 0,
\* no distinct order, average order value 0, or no rows at all),
\* calculate_revenue_metrics returns, and the growth rate over that base is
\* the undefined sentinel nan.
C1_ZeroBaseGrowthIsSentinel ==
    (Called("calculate_revenue_metrics") /\ op.withComp) =>
        LET base == BasicRevenueMetrics(comp)
        IN  /\ (\/ base.total_revenue = Whole(0)
                \/ base.total_orders = Whole(0)
                \/ base.average_order_value = Whole(0)) => Returned(result)
            /\ (Returned(result) /\ base.total_revenue = Whole(0)) =>
                   result.val.revenue_growth_rate = NaN
            /\ (Returned(result) /\ base.total_orders = Whole(0)) =>
                   result.val.order_growth_rate = NaN
            /\ (Returned(result) /\ base.average_order_value = Whole(0)) =>
                   result.val.aov_growth_rate = NaN

\* C2: calculate_business_health_score returns, and its four component
\* scores and the overall score are numbers in [0, 100].
C2_HealthScoresInRange ==
    Called("calculate_business_health_score") =>
        /\ Returned(result)
        /\ InRange(result.val.revenue_score, 0, 100)
        /\ InRange(result.val.customer_experience_score, 0, 100)
        /\ InRange(result.val.operational_score, 0, 100)
        /\ InRange(result.val.fulfillment_score, 0, 100)
        /\ InRange(result.val.overall_health_score, 0, 100)

\* C3: after any calculator call the RecordSet has the rows, the columns
\* and the values it was constructed with.
C3_RecordSetUnchanged ==
    (op.name # "none") => (df.cols = df0.cols /\ df.rows = df0.rows)

\* C4: the outcome of a call is an outcome the same call has on the
\* RecordSet as constructed, whatever calls were made before it.
C4_OutcomeIndependentOfHistory ==
    (op.name # "none") => result \in Outcomes(op, df0, comp)

\* C5: on a frame with rows, average_order_value is the sum of total_revenue
\* over all rows divided by the number of distinct order_id, total_orders
\* is that number, and total_items_sold is the number of rows.
RowRevenueTotal == Sum([i \in 1..Len(df.rows) |-> df.rows[i].price + df.rows[i].freight_value])

DistinctOrders == {df.rows[i].order_id : i \in 1..Len(df.rows)}

C5_AverageOrderValue ==
    (Called("calculate_revenue_metrics") /\ Returned(result) /\ Len(df.rows) > 0) =>
        /\ result.val.total_revenue = Whole(RowRevenueTotal)
        /\ result.val.total_orders = Whole(Cardinality(DistinctOrders))
        /\ result.val.total_items_sold = Whole(Len(df.rows))
        /\ IsNum(result.val.average_order_value)
        /\ result.val.average_order_value.n * Cardinality(DistinctOrders)
               = RowRevenueTotal * result.val.average_order_value.d

\* C5 witness: an order of two items, where the mean of the per-order sums
\* differs from the mean of the rows.
C5_Witness ==
    /\ Called("calculate_revenue_metrics") /\ Returned(result)
    /\ Len(df.rows) = 2 /\ Cardinality(DistinctOrders) = 1
    /\ RowRevenueTotal > 0
    /\ result.val.average_order_value = Whole(RowRevenueTotal)
    /\ result.val.average_order_value # Num(RowRevenueTotal, Len(df.rows))

\* C6: analyze_customer_experience returns for every combination of the
\* three optional columns, and an absent column only removes its own keys.
C6_MissingColumnsOnlyOmitKeys ==
    Called("analyze_customer_experience") =>
        /\ Returned(result)
        /\ ("review_score" \notin df.cols) =>
               /\ ~Has(result.val, "avg_review_score")
               /\ ~Has(result.val, "review_score_distribution")
               /\ ~Has(result.val, "nps_score")
        /\ ("delivery_days" \notin df.cols) =>
               /\ ~Has(result.val, "avg_delivery_days")
               /\ ~Has(result.val, "median_delivery_days")
               /\ ~Has(result.val, "delivery_satisfaction")
        /\ ("delivery_category" \notin df.cols) =>
               ~Has(result.val, "delivery_satisfaction")

\* C7: without the category or the geography column,
\* analyze_product_performance, analyze_geographic_performance and
\* generate_executive_summary still return.
C7_MissingCategoryOrStateNoError ==
    /\ (Called("analyze_product_performance")
            /\ "product_category_name" \notin df.cols) => Returned(result)
    /\ (Called("analyze_geographic_performance")
            /\ "customer_state" \notin df.cols) => Returned(result)
    /\ (Called("generate_executive_summary") /\ Len(df.rows) > 0
            /\ ("product_category_name" \notin df.cols
                    \/ "customer_state" \notin df.cols)) =>
           /\ Returned(result)
           /\ Has(result.val, "total_revenue")
           /\ Has(result.val, "health_score")

\* C8: on a primary frame without rows (called without a comparison frame)
\* calculate_revenue_metrics, calculate_monthly_trends,
\* analyze_customer_experience and calculate_business_health_score return,
\* and the ratios over zero rows are nan or omitted.
C8_EmptyInputReturns ==
    (Len(df.rows) = 0 /\ ~op.withComp) =>
        /\ Called("calculate_revenue_metrics") =>
               /\ Returned(result)
               /\ result.val.average_order_value = NaN
               /\ result.val.average_item_price = NaN
        /\ Called("calculate_monthly_trends") =>
               (Returned(result) /\ result.val = <<>>)
        /\ Called("analyze_customer_experience") =>
               (Returned(result) /\ ~Has(result.val, "nps_score"))
        /\ Called("calculate_business_health_score") =>
               /\ Returned(result)
               /\ ~IsNum(result.val.fulfillment_score)

\* C9: every row's period_number is 12 * (order year - cohort year) +
\* (order month - cohort month), the cohort month being the calendar month
\* of the customer's earliest purchase; the table has one row per cohort
\* month and one column per offset that occurs; a cell holds the number of
\* distinct customers of the cohort with a row at the offset, and is nan
\* (absent) when there is none.
Customers == {df.rows[i].customer_id : i \in 1..Len(df.rows)}

\* The row of the customer's earliest purchase, by day count.
EarliestRow(c) ==
    CHOOSE i \in 1..Len(df.rows) :
        /\ df.rows[i].customer_id = c
        /\ \A j \in 1..Len(df.rows) :
               df.rows[j].customer_id = c =>
                   DaysFromCivil(df.rows[i].order_purchase_timestamp)
                       <= DaysFromCivil(df.rows[j].order_purchase_timestamp)

CohortYearMonth(c) ==
    <<df.rows[EarliestRow(c)].year, df.rows[EarliestRow(c)].month>>

MonthOffset(i) ==
    LET cohort == CohortYearMonth(df.rows[i].customer_id)
    IN  12 * (df.rows[i].year - cohort[1]) + (df.rows[i].month - cohort[2])

\* The ordinal calculate_cohort_analysis labels a cohort month with.
MonthLabel(ym) == 12 * (ym[1] - 1970) + (ym[2] - 1)

CustomersAt(label, offset) ==
    {c \in Customers :
        /\ MonthLabel(CohortYearMonth(c)) = label
        /\ \E i \in 1..Len(df.rows) :
               df.rows[i].customer_id = c /\ MonthOffset(i) = offset}

C9_CohortOffsets ==
    Called("calculate_cohort_analysis") =>
        /\ Returned(result)
        /\ \A i \in 1..Len(df.rows) : CohortRows(df)[i].period_number = MonthOffset(i)
        /\ result.val.index = {MonthLabel(CohortYearMonth(c)) : c \in Customers}
        /\ result.val.columns = {MonthOffset(i) : i \in 1..Len(df.rows)}
        /\ \A cell \in result.val.index \X result.val.columns :
               result.val.cells[cell] =
                   IF CustomersAt(cell[1], cell[2]) = {} THEN NaN
                   ELSE Whole(Cardinality(CustomersAt(cell[1], cell[2])))

\* C9 witness: a customer first seen on 31 January 2023 who orders again on
\* 1 March 2023 (offset 2), the later order first in the frame, and a second
\* cohort that leaves a cell of the table absent.
C9_Witness ==
    /\ Called("calculate_cohort_analysis") /\ Returned(result)
    /\ \E i, j \in 1..Len(df.rows) :
           /\ i < j
           /\ df.rows[i].customer_id = df.rows[j].customer_id
           /\ df.rows[i].order_purchase_timestamp = Date(2023, 3, 1)
           /\ df.rows[j].order_purchase_timestamp = Date(2023, 1, 31)
           /\ MonthOffset(i) = 2
    /\ \E cell \in result.val.index \X result.val.columns :
           result.val.cells[cell] = NaN

\* C10 as stated: the percent change of a metric with a non-zero previous
\* value is (current - previous) / previous, the growth rate
\* calculate_revenue_metrics reports; with a zero previous value it is nan;
\* absolute_change is current - previous.
GrowthKey(metric) ==
    CASE metric = "total_revenue" -> "revenue_growth_rate"
      [] metric = "total_orders" -> "order_growth_rate"
      [] metric = "average_order_value" -> "aov_growth_rate"
      [] OTHER -> "none"

\* previous * x = scale * (current - previous), for a previous value that is
\* a non-zero number
IsScaledChange(x, scale, current, previous) ==
    FMul(previous, x) = FMul(Whole(scale), FSub(current, previous))

ComparisonAgrees(scale) ==
    Called("compare_periods") =>
        /\ Returned(result)
        /\ \A i \in DOMAIN result.val :
               LET row == result.val[i]
                   previous == row.previous_period
                   growth == calculate_revenue_metrics(df, comp)
               IN  /\ row.current_period = BasicRevenueMetrics(df)[row.metric]
                   /\ previous = BasicRevenueMetrics(comp)[row.metric]
                   /\ row.absolute_change = FSub(row.current_period, previous)
                   /\ (previous = Whole(0)) => row.percent_change = NaN
                   /\ (IsNum(previous) /\ previous # Whole(0)) =>
                          /\ IsScaledChange(row.percent_change, scale,
                                            row.current_period, previous)
                          /\ Returned(growth)
                          /\ GrowthKey(row.metric) # "none" =>
                                 row.percent_change =
                                     FMul(Whole(scale), growth.val[GrowthKey(row.metric)])

C10_PercentChangeIsGrowthRate == ComparisonAgrees(1)

\* C10 amended: the percent change is 100 times that ratio, that is 100
\* times the growth rate calculate_revenue_metrics reports.
C10_PercentChangeIsHundredTimesGrowthRate == ComparisonAgrees(100)

\* C10 witness: a comparison whose previous revenue is zero (an undefined
\* percent change) and whose order count doubles (a percent change of 100).
C10_Witness ==
    /\ Called("compare_periods") /\ Returned(result)
    /\ Len(result.val) = 3
    /\ result.val[1].metric = "total_revenue"
    /\ result.val[1].previous_period = Whole(0)
    /\ result.val[1].current_period = Whole(1500)
    /\ result.val[1].percent_change = NaN
    /\ result.val[2].metric = "total_orders"
    /\ result.val[2].previous_period = Whole(1)
    /\ result.val[2].current_period = Whole(2)
    /\ result.val[2].percent_change = Whole(100)


(***************************************************************************)
(* Health score and customer experience (SpecExperience).                  *)
(***************************************************************************)
\* The rows of df with a review score, and the scores they hold.
ScoredRows == {i \in 1..Len(df.rows) : df.rows[i].review_score # NullNum}

ScoreTotal == Sum([i \in 1..Len(df.rows) |->
                     IF i \in ScoredRows THEN df.rows[i].review_score ELSE 0])

ReviewsAvailable == "review_score" \in df.cols /\ ScoredRows # {}

\* 0.30 r + 0.25 c + 0.20 o + 0.25 f, from the four scores of the breakdown.
BreakdownSum ==
    FDiv(FAdd(FAdd(FAdd(FMul(Whole(30), result.val.revenue_score),
                        FMul(Whole(25), result.val.customer_experience_score)),
                   FMul(Whole(20), result.val.operational_score)),
              FMul(Whole(25), result.val.fulfillment_score)),
         Whole(100))

\* C11: the four weights are 0.30, 0.25, 0.20 and 0.25 and sum to 1; when
\* calculate_business_health_score returns, overall_health_score is a
\* multiple of 0.1 at most 0.05 away from 0.30 * revenue_score + 0.25 *
\* customer_experience_score + 0.20 * operational_score + 0.25 *
\* fulfillment_score, taken over the scores returned in the breakdown.
C11_OverallIsRoundedWeightedSum ==
    /\ weights = [revenue_score |-> 30, customer_experience_score |-> 25,
                  operational_score |-> 20, fulfillment_score |-> 25]
    /\ weights.revenue_score + weights.customer_experience_score
           + weights.operational_score + weights.fulfillment_score = 100
    /\ (Called("calculate_business_health_score") /\ Returned(result)) =>
           LET overall == result.val.overall_health_score
               diff == FSub(overall, BreakdownSum)
           IN  /\ IsNum(BreakdownSum)
               /\ IsNum(overall)
               /\ 10 % overall.d = 0
               /\ 20 * Abs(diff.n) <= diff.d

\* C11 witness: a health score with a comparison frame whose weighted sum
\* is not a multiple of 0.1, so that the rounding changed it.
C11_Witness ==
    /\ Called("calculate_business_health_score") /\ Returned(result)
    /\ op.withComp
    /\ result.val.revenue_score # Whole(70)
    /\ result.val.overall_health_score # BreakdownSum

\* C13: customer_experience_score is 40 + 7.5 * (avg_review_score - 1) when
\* the frame has a review score (a number in [40, 70], and 70 when every
\* score is 5), and 70 when it has none.
C13_CustomerExperienceScore ==
    (Called("calculate_business_health_score") /\ Returned(result)) =>
        LET cx == result.val.customer_experience_score
            n == Cardinality(ScoredRows)
        IN  IF ReviewsAvailable
            THEN /\ IsNum(cx)
                 \* cx = 40 + 15/2 * (ScoreTotal / n - 1)
                 /\ cx.n * 2 * n = cx.d * (80 * n + 15 * (ScoreTotal - n))
                 /\ InRange(cx, 40, 70)
                 /\ (ScoreTotal = 5 * n) => cx = Whole(70)
                 /\ (ScoreTotal = n) => cx = Whole(40)
            ELSE cx = Whole(70)

\* C13 witness: scores 4 and 1 and a row without a score, the average 2.5
\* giving 51.25.
C13_Witness ==
    /\ Called("calculate_business_health_score") /\ Returned(result)
    /\ ReviewsAvailable
    /\ Cardinality(ScoredRows) = 2 /\ ScoreTotal = 5 /\ Len(df.rows) = 3
    /\ result.val.customer_experience_score = Num(205, 4)

\* C20: when the frame has scored rows, nps_score is 100 * ((rows with score
\* 5) - (rows with score 1 or 2)) / (rows with a score), a number in
\* [-100, 100]; when it has none, or no review_score column, the result has
\* no nps_score.
C20_NpsScore ==
    (Called("analyze_customer_experience") /\ Returned(result)) =>
        LET promoters == Cardinality({i \in ScoredRows : df.rows[i].review_score = 5})
            detractors == Cardinality({i \in ScoredRows : df.rows[i].review_score \in {1, 2}})
        IN  IF ReviewsAvailable
            THEN /\ Has(result.val, "nps_score")
                 /\ result.val.nps_score
                        = Num(100 * (promoters - detractors), Cardinality(ScoredRows))
                 /\ InRange(result.val.nps_score, -100, 100)
            ELSE ~Has(result.val, "nps_score")

\* C20 witness: three rows, one without a score, one promoter and one
\* passive: the index is 50 over the two scored rows.
C20_Witness ==
    /\ Called("analyze_customer_experience") /\ Returned(result)
    /\ Len(df.rows) = 3 /\ Cardinality(ScoredRows) = 2
    /\ Has(result.val, "nps_score")
    /\ result.val.nps_score = Whole(50)


(***************************************************************************)
(* Revenue score (SpecRevenue).                                            *)
(***************************************************************************)
FrameRevenue(d) ==
    Sum([i \in 1..Len(d.rows) |-> d.rows[i].price + d.rows[i].freight_value])

\* One-row frames of increasing revenue, to compare the score against.
GrowthProbes ==
    {Frame(<<MkRow(1, 1, p, 0, "delivered", Date(2023, 1, 15), "a", "SP", 5, 3)>>) :
        p \in {0, 1200, 1500, 1800, 2000, 2500, 3000}}

\* The health score of another primary frame against the same comparison.
RevenueScoreOf(d) == calculate_business_health_score(d, comp)

\* C12: revenue_score is 70 without a comparison frame; with one whose
\* revenue is not zero it is 70 + min(100 g, 30) for a growth rate g >= 0
\* and 70 + max(100 g, -30) for g < 0, a number in [40, 100] that is 70 at
\* g = 0 and is non-decreasing in g.
C12_RevenueScore ==
    (Called("calculate_business_health_score") /\ Returned(result)) =>
        LET rs == result.val.revenue_score
            cur == FrameRevenue(df)
            base == FrameRevenue(comp)
            g100 == Num(100 * (cur - base), base)
            term == IF cur >= base
                    THEN (IF FLt(g100, Whole(30)) THEN g100 ELSE Whole(30))
                    ELSE (IF FGt(g100, Whole(-30)) THEN g100 ELSE Whole(-30))
        IN  /\ ~op.withComp => rs = Whole(70)
            /\ (op.withComp /\ base # 0) =>
                   /\ rs = FAdd(Whole(70), term)
                   /\ InRange(rs, 40, 100)
                   /\ (cur = base) => rs = Whole(70)
                   /\ \A d \in GrowthProbes :
                          /\ Returned(RevenueScoreOf(d))
                          /\ (FrameRevenue(d) <= cur) =>
                                 FLe(RevenueScoreOf(d).val.revenue_score, rs)
                          /\ (FrameRevenue(d) >= cur) =>
                                 FLe(rs, RevenueScoreOf(d).val.revenue_score)

\* C12 witness: revenue 1500 against 2000, a growth rate of -0.25 and a
\* score of 45, between the two caps.
C12_Witness ==
    /\ Called("calculate_business_health_score") /\ Returned(result)
    /\ op.withComp
    /\ FrameRevenue(df) = 1500 /\ FrameRevenue(comp) = 2000
    /\ result.val.revenue_score = Whole(45)


(***************************************************************************)
(* Monthly trends (SpecTrends).                                            *)
(***************************************************************************)
\* The calendar months of df, and the rows of one of them.
MonthsPresent == {<<df.rows[i].year, df.rows[i].month>> : i \in 1..Len(df.rows)}

RowsOfMonth(ym) ==
    {i \in 1..Len(df.rows) : df.rows[i].year = ym[1] /\ df.rows[i].month = ym[2]}

MonthRevenue(ym) ==
    Sum([i \in 1..Len(df.rows) |->
            IF i \in RowsOfMonth(ym) THEN df.rows[i].total_revenue ELSE 0])

MonthOrders(ym) == Cardinality({df.rows[i].order_id : i \in RowsOfMonth(ym)})

\* C14: calculate_monthly_trends returns one row per (year, month) of the
\* frame, in strictly ascending (year, month) order; a row holds the sum of
\* total_revenue, the number of distinct order_id and the number of rows of
\* its month, and avg_order_value = revenue / orders.
C14_MonthlyRows ==
    (Called("calculate_monthly_trends") /\ Returned(result)) =>
        LET t == result.val
        IN  /\ Len(t) = Cardinality(MonthsPresent)
            /\ {<<t[i].year, t[i].month>> : i \in DOMAIN t} = MonthsPresent
            /\ \A i, j \in DOMAIN t : i < j =>
                   \/ t[i].year < t[j].year
                   \/ (t[i].year = t[j].year /\ t[i].month < t[j].month)
            /\ \A i \in DOMAIN t :
                   LET ym == <<t[i].year, t[i].month>>
                   IN  /\ t[i].revenue = Whole(MonthRevenue(ym))
                       /\ t[i].orders = Whole(MonthOrders(ym))
                       /\ t[i].items_sold = Whole(Cardinality(RowsOfMonth(ym)))
                       /\ MonthOrders(ym) > 0
                       /\ t[i].avg_order_value
                              = Num(MonthRevenue(ym), MonthOrders(ym))

\* C14 witness: rows of December 2022 and January 2023 given in reverse
\* order, two of them in the same month and order.
C14_Witness ==
    /\ Called("calculate_monthly_trends") /\ Returned(result)
    /\ Len(df.rows) = 3 /\ Len(result.val) = 2
    /\ df.rows[1].year = 2023 /\ df.rows[3].year = 2022
    /\ result.val[1].year = 2022 /\ result.val[1].month = 12
    /\ result.val[2].year = 2023 /\ result.val[2].month = 1
    /\ result.val[2].items_sold = Whole(2)
    /\ result.val[2].orders = Whole(1)
    /\ result.val[2].revenue = Whole(2000)

\* The growth the claim asks for: undefined (nan) for the first row and
\* over a previous value of 0, (current - previous) / previous otherwise.
ExpectedGrowth(t, column, i) ==
    IF i = 1 THEN NaN
    ELSE IF t[i - 1][column] = Whole(0) THEN NaN
    ELSE FDiv(FSub(t[i][column], t[i - 1][column]), t[i - 1][column])

\* C15: in every row of calculate_monthly_trends the month-over-month
\* growth of revenue, orders and avg_order_value is (current - previous) /
\* previous over the preceding row, and is the undefined value nan in the
\* first row and wherever the previous value is 0.
C15_MonthOverMonthGrowth ==
    (Called("calculate_monthly_trends") /\ Returned(result)) =>
        \A i \in DOMAIN result.val :
            /\ result.val[i].revenue_mom_growth
                   = ExpectedGrowth(result.val, "revenue", i)
            /\ result.val[i].orders_mom_growth
                   = ExpectedGrowth(result.val, "orders", i)
            /\ result.val[i].aov_mom_growth
                   = ExpectedGrowth(result.val, "avg_order_value", i)


(***************************************************************************)
(* Product and geographic rankings (SpecRanking).                          *)
(***************************************************************************)
Min(a, b) == IF a < b THEN a ELSE b

\* The categories of df, the rows of one, its revenue and its orders.
Categories == {df.rows[i].product_category_name : i \in 1..Len(df.rows)} \ {NullStr}

RowsOfCategory(c) == {i \in 1..Len(df.rows) : df.rows[i].product_category_name = c}

RevenueOfCategory(c) ==
    Sum([i \in 1..Len(df.rows) |->
            IF i \in RowsOfCategory(c) THEN df.rows[i].total_revenue ELSE 0])

OrdersOfCategory(c) == {df.rows[i].order_id : i \in RowsOfCategory(c)}

\* The alphabetical position of a category name.
NameRank(c) == IF c = "a" THEN 1 ELSE IF c = "b" THEN 2 ELSE 3

ShareSum(ms) ==
    LET RECURSIVE Add(_)
        Add(i) == IF i = 0 THEN Whole(0) ELSE FAdd(Add(i - 1), ms[i].market_share)
    IN  Add(Len(ms))

UncategorizedRevenue ==
    Sum([i \in 1..Len(df.rows) |->
            IF df.rows[i].product_category_name = NullStr
            THEN df.rows[i].total_revenue ELSE 0])

\* What C17 says of the shares when the shares are numbers: each is the
\* category's revenue over the revenue of all rows and lies in [0, 1], they
\* sum to at most 1, and when every category is listed they sum to 1
\* exactly if no revenue comes from rows without a category.
SharesOfAllRevenue(ms) ==
    /\ \A i \in DOMAIN ms :
           /\ InRange(ms[i].market_share, 0, 1)
           /\ ms[i].market_share.n * FrameRevenue(df)
                  = RevenueOfCategory(ms[i].category) * ms[i].market_share.d
    /\ FLe(ShareSum(ms), Whole(1))
    /\ (Len(ms) = Cardinality(Categories) /\ Len(ms) > 0) =>
           (ShareSum(ms) = Whole(1) <=> UncategorizedRevenue = 0)

\* No view of the product analysis has a row for the missing category.
NoMissingCategoryRow ==
    /\ \A i \in DOMAIN result.val.category_performance :
           result.val.category_performance[i].category \in Categories
    /\ \A i \in DOMAIN result.val.market_share :
           result.val.market_share[i].category \in Categories
    /\ \A i \in DOMAIN result.val.items_per_order :
           result.val.items_per_order[i].product_category_name \in Categories

\* C17: rows without a category appear in no category-keyed result, and
\* for every frame (of non-negative revenues) each market share is the
\* category's revenue over the revenue of all rows, a number in [0, 1], the
\* shares summing to at most 1.
C17_MarketShareOfAllRevenue ==
    (Called("analyze_product_performance") /\ Returned(result)) =>
        /\ NoMissingCategoryRow
        /\ SharesOfAllRevenue(result.val.market_share)

\* C17 amended: the same for a frame whose total revenue is positive; when
\* the total revenue is 0 every market share is the undefined value nan.
C17_MarketShareOfPositiveRevenue ==
    (Called("analyze_product_performance") /\ Returned(result)) =>
        /\ NoMissingCategoryRow
        /\ IF FrameRevenue(df) > 0
           THEN SharesOfAllRevenue(result.val.market_share)
           ELSE \A i \in DOMAIN result.val.market_share :
                    result.val.market_share[i].market_share = NaN

\* C17 witness: a category with half of the revenue, the other half on a
\* row without a category.
C17_Witness ==
    /\ Called("analyze_product_performance") /\ Returned(result)
    /\ UncategorizedRevenue = 1000 /\ FrameRevenue(df) = 2000
    /\ Len(result.val.market_share) = 1
    /\ result.val.market_share[1].category = "a"
    /\ result.val.market_share[1].market_share = Num(1, 2)

\* C18: items_per_order holds min(top_n, number of categories) rows; the
\* value of a category is its number of rows divided by the number of
\* orders that contain it (the mean over those orders of the rows of the
\* category in the order); the rows are in descending order of the value
\* and no category left out has a larger value than one included.
C18_ItemsPerOrder ==
    (Called("analyze_product_performance") /\ Returned(result)) =>
        LET ipo == result.val.items_per_order
            included == {ipo[i].product_category_name : i \in DOMAIN ipo}
            value(c) == Num(Cardinality(RowsOfCategory(c)),
                            Cardinality(OrdersOfCategory(c)))
        IN  /\ Len(ipo) = Min(op.top_n, Cardinality(Categories))
            /\ Cardinality(included) = Len(ipo)
            /\ included \subseteq Categories
            /\ \A i \in DOMAIN ipo :
                   ipo[i].items_per_order = value(ipo[i].product_category_name)
            /\ \A i, j \in DOMAIN ipo : i < j =>
                   FLe(ipo[j].items_per_order, ipo[i].items_per_order)
            /\ \A c \in Categories \ included : \A i \in DOMAIN ipo :
                   FLe(value(c), ipo[i].items_per_order)

\* C18 witness: category a with two rows in one order and one row in
\* another, an average of 1.5.
C18_Witness ==
    /\ Called("analyze_product_performance") /\ Returned(result)
    /\ Cardinality(RowsOfCategory("a")) = 3
    /\ Cardinality(OrdersOfCategory("a")) = 2
    /\ Len(result.val.items_per_order) = 1
    /\ result.val.items_per_order[1].items_per_order = Num(3, 2)

\* The states of df, and the revenue and the customers of one.
States == {df.rows[i].customer_state : i \in 1..Len(df.rows)} \ {NullStr}

RevenueOfState(st) ==
    Sum([i \in 1..Len(df.rows) |->
            IF df.rows[i].customer_state = st THEN df.rows[i].total_revenue ELSE 0])

CustomersOfState(st) ==
    Cardinality({df.rows[i].customer_id :
                    i \in {j \in 1..Len(df.rows) : df.rows[j].customer_state = st}})

\* C19: state_performance holds the min(top_n, number of states) states of
\* largest revenue in descending order, top_customer_states the same number
\* of states of largest distinct customer count in descending order, chosen
\* among all states; revenue_per_customer = total_revenue /
\* unique_customers.
C19_IndependentStateRankings ==
    (Called("analyze_geographic_performance") /\ Returned(result)) =>
        LET sp == result.val.state_performance
            tc == result.val.top_customer_states
            by_revenue == {sp[i].state : i \in DOMAIN sp}
            by_customers == {tc[i].state : i \in DOMAIN tc}
        IN  /\ Len(sp) = Min(op.top_n, Cardinality(States))
            /\ Len(tc) = Len(sp)
            /\ Cardinality(by_revenue) = Len(sp) /\ by_revenue \subseteq States
            /\ Cardinality(by_customers) = Len(tc) /\ by_customers \subseteq States
            /\ \A i \in DOMAIN sp :
                   /\ sp[i].total_revenue = Whole(RevenueOfState(sp[i].state))
                   /\ sp[i].unique_customers = CustomersOfState(sp[i].state)
                   /\ sp[i].revenue_per_customer
                          = Num(RevenueOfState(sp[i].state), CustomersOfState(sp[i].state))
            /\ \A i, j \in DOMAIN sp : i < j =>
                   FLe(sp[j].total_revenue, sp[i].total_revenue)
            /\ \A st \in States \ by_revenue : \A i \in DOMAIN sp :
                   RevenueOfState(st) <= RevenueOfState(sp[i].state)
            /\ \A i \in DOMAIN tc :
                   /\ tc[i].unique_customers = CustomersOfState(tc[i].state)
                   /\ tc[i].total_revenue = Whole(RevenueOfState(tc[i].state))
            /\ \A i, j \in DOMAIN tc : i < j =>
                   tc[j].unique_customers <= tc[i].unique_customers
            /\ \A st \in States \ by_customers : \A i \in DOMAIN tc :
                   CustomersOfState(st) <= tc[i].unique_customers

\* C19 witness: with top_n = 1, the state of largest revenue is not the
\* state of most customers.
C19_Witness ==
    /\ Called("analyze_geographic_performance") /\ Returned(result)
    /\ op.top_n = 1
    /\ Len(result.val.state_performance) = 1
    /\ result.val.state_performance[1].state = "RJ"
    /\ result.val.top_customer_states[1].state = "SP"
    /\ result.val.top_customer_states[1].unique_customers = 2


(***************************************************************************)
(* Cohort table (SpecCohort).                                              *)
(***************************************************************************)
\* C22: every column label (period offset) of the cohort table is a
\* non-negative integer, and no row's order month is before the
\* first-purchase month of its customer.
C22_CohortOffsetsNonNegative ==
    (Called("calculate_cohort_analysis") /\ Returned(result)) =>
        /\ \A n \in result.val.columns : n \in Nat
        /\ \A i \in 1..Len(df.rows) :
               /\ CohortRows(df)[i].first_purchase_month <= CohortRows(df)[i].order_month
               /\ CohortRows(df)[i].period_number \in result.val.columns

\* C22 witness: a customer who orders in December 2022 and again in March
\* 2023, the later order first in the frame: the offsets are 0 and 3.
C22_Witness ==
    /\ Called("calculate_cohort_analysis") /\ Returned(result)
    /\ Len(df.rows) = 2
    /\ df.rows[1].customer_id = df.rows[2].customer_id
    /\ df.rows[1].order_purchase_timestamp = Date(2023, 3, 1)
    /\ df.rows[2].order_purchase_timestamp = Date(2022, 12, 20)
    /\ result.val.columns = {0, 3}

\* The customers whose earliest purchase is in the month with this label.
CohortMembers(label) == {c \in Customers : MonthLabel(CohortYearMonth(c)) = label}

\* The sum of the offset-0 cells of the cohort rows in S.
RECURSIVE OffsetZeroSum(_)
OffsetZeroSum(S) ==
    IF S = {} THEN 0
    ELSE LET m == CHOOSE x \in S : TRUE
         IN  result.val.cells[<<m, 0>>].n + OffsetZeroSum(S \ {m})

\* C23: in every row of the cohort table the offset-0 cell is present and
\* is the number of customers of the cohort; every other present cell is
\* at least 1 and at most the offset-0 cell; the offset-0 cells sum to the
\* number of distinct customers of the frame.
C23_CohortOffsetZero ==
    (Called("calculate_cohort_analysis") /\ Returned(result)) =>
        /\ (result.val.index # {}) => 0 \in result.val.columns
        /\ \A m \in result.val.index :
               /\ result.val.cells[<<m, 0>>]
                      = Whole(Cardinality(CohortMembers(m)))
               /\ \A n \in result.val.columns :
                      \/ result.val.cells[<<m, n>>] = NaN
                      \/ /\ FLe(Whole(1), result.val.cells[<<m, n>>])
                         /\ FLe(result.val.cells[<<m, n>>], result.val.cells[<<m, 0>>])
        /\ OffsetZeroSum(result.val.index) = Cardinality(Customers)

\* C23 witness: a cohort of two customers of whom one orders again in a
\* later month, so that a later cell is smaller than the offset-0 cell.
C23_Witness ==
    /\ Called("calculate_cohort_analysis") /\ Returned(result)
    /\ Cardinality(Customers) = 2
    /\ \E m \in result.val.index : \E n \in result.val.columns :
           /\ n > 0
           /\ result.val.cells[<<m, 0>>] = Whole(2)
           /\ result.val.cells[<<m, n>>] = Whole(1)


(***************************************************************************)
(* Loader pipeline (SpecLoader).                                           *)
(***************************************************************************)
Enrichments ==
    {"add_product_categories", "add_customer_geography",
     "add_customer_experience_data"}

\* C21: every row of the sales frame, as prepare_sales_data builds it and
\* as the filter and every enrichment step return it, has total_revenue =
\* price + freight_value, and the total_revenue calculate_revenue_metrics
\* reports is the sum of price plus the sum of freight_value of the rows.
C21_RevenueConservation ==
    /\ \A i \in 1..Len(df.rows) :
           df.rows[i].total_revenue = df.rows[i].price + df.rows[i].freight_value
    /\ (Called("calculate_revenue_metrics") /\ Returned(result)) =>
           result.val.total_revenue
               = Whole(Sum(Col(df, "price")) + Sum(Col(df, "freight_value")))

\* C21 witness: the revenue metrics of a fully enriched frame of two rows
\* or more with freight on some row.
C21_Witness ==
    /\ Called("calculate_revenue_metrics") /\ Returned(result)
    /\ "delivery_category" \in df.cols
    /\ Len(df.rows) >= 2
    /\ Sum(Col(df, "freight_value")) > 0
    /\ result.val.total_revenue
           = Whole(Sum(Col(df, "price")) + Sum(Col(df, "freight_value")))

\* C24: an enrichment step returns one row per row it was given, in the
\* same order, with order_id, order_item_id, price, freight_value and
\* total_revenue unchanged, so that total_revenue, total_items_sold and
\* total_orders of the frame are the same before and after the step.
C24_EnrichmentKeepsRows ==
    (op.name \in Enrichments) =>
        /\ Len(df.rows) = Len(df0.rows)
        /\ \A i \in 1..Len(df0.rows) :
               \A f \in {"order_id", "order_item_id", "price", "freight_value",
                          "total_revenue"} :
                   df.rows[i][f] = df0.rows[i][f]
        /\ BasicRevenueMetrics(df).total_revenue = BasicRevenueMetrics(df0).total_revenue
        /\ BasicRevenueMetrics(df).total_items_sold
               = BasicRevenueMetrics(df0).total_items_sold
        /\ BasicRevenueMetrics(df).total_orders = BasicRevenueMetrics(df0).total_orders

====
